---- MODULE Spec2Model ----
(***************************************************************************)
(* Model of cloudinit/sources/helpers/vultr.py: the metadata acquisition   *)
(* loop get_metadata (memoized by functools.lru_cache), the route helper   *)
(* set_route and the metadata reader read_metadata.                        *)
(***************************************************************************)
EXTENDS Integers, Sequences, FiniteSets, TLC

VARIABLES
  cache,      \* lru_cache of get_metadata: <<key, document>> pairs, least recently used first
  pc,         \* position of the caller / get_metadata
  key,        \* the (url, timeout, retries, sec_between, agent) tuple of the call in progress
  ifaces,     \* the list net.get_interfaces() returned to the call in progress
  idx,        \* position of the for loop in ifaces (1-based)
  exception,  \* the local variable `exception`
  open,       \* names of the interfaces whose EphemeralDHCPv4 session is up
  v1,         \* the text read_metadata returned
  result,     \* what the call returned or raised
  trace,      \* per call: what was done on which interface (history)
  hist,       \* per process: counters and last results per key (history)
  rt,         \* set_route applied on its own: inputs and outcome
  rm,         \* read_metadata applied on its own: one entry per call, inputs and outcome
  dmi,        \* the SMBIOS manufacturer, the kernel command line, and what is_vultr / is_baremetal said
  sysmap,     \* what net.get_interfaces_by_mac() would return now: MAC -> name
  macs_to_nic, \* lru_cache of get_interface_map: <<>> or the one memoized map
  nw          \* the last call of the network config functions: inputs, outcome, counters (history)

aux == <<rm, dmi, sysmap, macs_to_nic, nw>>
vars == <<cache, pc, key, ifaces, idx, exception, open, v1, result, trace, hist, rt, aux>>

-----------------------------------------------------------------------------
(* Bounds of the model *)

MaxCalls == 2
NumUrls == 2
MaxIfaces == 3
MaxRoutes == 2
MaxRecalls == 2

(* functools.lru_cache() default maxsize, the decorator of get_metadata *)
maxsize == 128

-----------------------------------------------------------------------------
(* Values *)

None == "None"
NoKey == <<>>

\* get_metadata(url, timeout, retries, sec_between, agent)
Key(u) == <<u, 10, 3, 2, "cloud-init">>
Params == {Key(u) : u \in 1..NumUrls}
SweepParams == {Key(u) : u \in 1..(maxsize + 1)}

\* interface names, as character sequences
lo == <<"l", "o">>
lo0 == <<"l", "o", "0">>
mydummy == <<"m", "y", "d", "u", "m", "m", "y">>
eth0 == <<"e", "t", "h", "0">>
Names == {lo, lo0, mydummy, eth0}

Range(s) == {s[i] : i \in DOMAIN s}
IsInjective(s) == \A i, j \in DOMAIN s : s[i] = s[j] => i = j
SeqsUpTo(S, n) == UNION {[1..m -> S] : m \in 0..n}

\* what net.get_interfaces() can return: distinct names, in some order
IfaceLists == {l \in SeqsUpTo(Names, MaxIfaces) : IsInjective(l)}

\* `sub in s` on Python strings
Contains(sub, s) ==
  \E i \in 0..(Len(s) - Len(sub)) :
    \A j \in 1..Len(sub) : s[i + j] = sub[j]

-----------------------------------------------------------------------------
(* functools.lru_cache around get_metadata: results of calls that returned  *)
(* are kept per argument tuple, the least recently used one is dropped when *)
(* maxsize entries are held; a call that raises stores nothing.             *)

lru_has(c, k) == \E i \in DOMAIN c : c[i][1] = k
lru_pos(c, k) == CHOOSE i \in DOMAIN c : c[i][1] = k
lru_get(c, k) == c[lru_pos(c, k)][2]
lru_without(c, i) == SubSeq(c, 1, i - 1) \o SubSeq(c, i + 1, Len(c))

\* (variant: a hit leaves the order alone, so the oldest stored entry is dropped first)
lru_touch_none(c, k) == c

\* a hit moves the entry to the most recently used end
lru_touch(c, k) == Append(lru_without(c, lru_pos(c, k)), c[lru_pos(c, k)])

\* the key dropped by storing k, or NoKey
lru_evicted(c, k) ==
  IF ~lru_has(c, k) /\ Len(c) >= maxsize THEN c[1][1] ELSE NoKey

\* (variant: nothing is stored)
lru_store_none(c, k, v) == c

\* storing the result of a call that missed
lru_store(c, k, v) ==
  IF lru_has(c, k) THEN c
  ELSE IF Len(c) >= maxsize THEN Append(Tail(c), <<k, v>>)
  ELSE Append(c, <<k, v>>)

-----------------------------------------------------------------------------
(* set_route(iface) *)

Dests == {"100.64.0.0", "100.64.0.0/10", "169.254.169.254",
          "169.254.169.254/32", "0.0.0.0"}

\* what netinfo.route_info() can return: without the ipv4 key, or with a list
NoIpv4Table == [ipv6 |-> <<>>]
Ipv4Table(l) == [ipv4 |-> [i \in DOMAIN l |-> [destination |-> l[i]]], ipv6 |-> <<>>]
RouteTables == {NoIpv4Table} \cup {Ipv4Table(l) : l \in SeqsUpTo(Dests, MaxRoutes)}

\* the tables get_metadata is run against: no ipv4 key, an empty list, and
\* each single destination
ProbeTables == {NoIpv4Table} \cup {Ipv4Table(l) : l \in SeqsUpTo(Dests, 1)}

ip_route_add(iface) == <<"ip", "route", "add", "169.254.169.254/32", "dev", iface>>
route_add == <<"route", "add", "-net", "169.254.169.254/32", "100.64.0.1">>

\* (variant: the metadata route is not looked for)
set_route_no_dest_check(iface, routes, which_ip, which_route, subp_fails) ==
  IF "ipv4" \notin DOMAIN routes
  THEN [cmds |-> <<>>, raised |-> FALSE]
  ELSE
    LET dests == {routes.ipv4[i].destination : i \in DOMAIN routes.ipv4}
        gw_present == "100.64.0.0" \in dests \/ "100.64.0.0/10" \in dests
    IN  IF ~gw_present
        THEN [cmds |-> <<>>, raised |-> FALSE]
        ELSE IF which_ip
        THEN [cmds |-> <<ip_route_add(iface)>>, raised |-> subp_fails]
        ELSE IF which_route
        THEN [cmds |-> <<route_add>>, raised |-> subp_fails]
        ELSE [cmds |-> <<>>, raised |-> FALSE]

\* (variant: a failure of the command is swallowed inside set_route)
set_route_swallow(iface, routes, which_ip, which_route, subp_fails) ==
  IF "ipv4" \notin DOMAIN routes
  THEN [cmds |-> <<>>, raised |-> FALSE]
  ELSE
    LET dests == {routes.ipv4[i].destination : i \in DOMAIN routes.ipv4}
        gw_present == "100.64.0.0" \in dests \/ "100.64.0.0/10" \in dests
        dest_present == "169.254.169.254" \in dests
    IN  IF ~gw_present \/ dest_present
        THEN [cmds |-> <<>>, raised |-> FALSE]
        ELSE IF which_ip
        THEN [cmds |-> <<ip_route_add(iface)>>, raised |-> FALSE]
        ELSE IF which_route
        THEN [cmds |-> <<route_add>>, raised |-> FALSE]
        ELSE [cmds |-> <<>>, raised |-> FALSE]

\* (variant: the route tool is asked for first)
set_route_prefers_route(iface, routes, which_ip, which_route, subp_fails) ==
  IF "ipv4" \notin DOMAIN routes
  THEN [cmds |-> <<>>, raised |-> FALSE]
  ELSE
    LET dests == {routes.ipv4[i].destination : i \in DOMAIN routes.ipv4}
        gw_present == "100.64.0.0" \in dests \/ "100.64.0.0/10" \in dests
        dest_present == "169.254.169.254" \in dests
    IN  IF ~gw_present \/ dest_present
        THEN [cmds |-> <<>>, raised |-> FALSE]
        ELSE IF which_route
        THEN [cmds |-> <<route_add>>, raised |-> subp_fails]
        ELSE IF which_ip
        THEN [cmds |-> <<ip_route_add(iface)>>, raised |-> subp_fails]
        ELSE [cmds |-> <<>>, raised |-> FALSE]

\* routes: netinfo.route_info(); which_ip, which_route: subp.which(...) found
\* the tool; subp_fails: subp.subp raises ProcessExecutionError.
\* Yields the commands run and whether ProcessExecutionError left set_route.
set_route(iface, routes, which_ip, which_route, subp_fails) ==
  IF "ipv4" \notin DOMAIN routes
  THEN [cmds |-> <<>>, raised |-> FALSE]
  ELSE
    LET dests == {routes.ipv4[i].destination : i \in DOMAIN routes.ipv4}
        gw_present == "100.64.0.0" \in dests \/ "100.64.0.0/10" \in dests
        dest_present == "169.254.169.254" \in dests
    IN  IF ~gw_present \/ dest_present
        THEN [cmds |-> <<>>, raised |-> FALSE]
        ELSE IF which_ip
        THEN [cmds |-> <<ip_route_add(iface)>>, raised |-> subp_fails]
        ELSE IF which_route
        THEN [cmds |-> <<route_add>>, raised |-> subp_fails]
        ELSE [cmds |-> <<>>, raised |-> FALSE]

-----------------------------------------------------------------------------
(* read_metadata(url, timeout, retries, sec_between, agent) and json.loads *)

Texts == {"{\"v\":1}", "{ \"v\": 1 }", "{\"v\":2}", "{\"v\":"}

\* json.loads(v1): the document, or JSONDecodeError
json_loads(t) ==
  CASE t = "{\"v\":1}" -> "doc_v1"
    [] t = "{ \"v\": 1 }" -> "doc_v1"
    [] t = "{\"v\":2}" -> "doc_v2"
    [] OTHER -> "JSONDecodeError"

\* response.contents is bytes; the model writes a body that is UTF-8 as its
\* text and has one body that is not UTF-8
NotUtf8 == "\\xff"

\* bytes.decode(): the text, or UnicodeDecodeError
decode(contents) == IF contents = NotUtf8 THEN "UnicodeDecodeError" ELSE contents

\* what url_helper.readurl can do: raise UrlError, or hand back a response
Responses ==
  {[kind |-> "UrlError", code |-> 0, contents |-> None]} \cup
  {[kind |-> "response", code |-> 200, contents |-> t] : t \in Texts} \cup
  {[kind |-> "response", code |-> c, contents |-> None] : c \in {404, 503}}

\* response.ok()
response_ok(resp) == resp.code < 400

\* The url asked for is "%s/v1.json" % url. On a response that is not ok the
\* raise statement evaluates `"... %s ... %s" % url` with one argument for
\* two places, which is a TypeError, before any RuntimeError is built.
read_metadata(p, resp) ==
  LET url == <<p[1], "/v1.json">>
  IN  IF resp.kind = "UrlError"
      THEN [exc |-> "UrlError", url |-> url, code |-> resp.code, text |-> None]
      ELSE IF ~response_ok(resp)
      THEN [exc |-> "TypeError", url |-> None, code |-> 0, text |-> None]
      ELSE IF decode(resp.contents) = "UnicodeDecodeError"
      THEN [exc |-> "UnicodeDecodeError", url |-> url, code |-> resp.code, text |-> None]
      ELSE [exc |-> None, url |-> url, code |-> resp.code, text |-> decode(resp.contents)]

-----------------------------------------------------------------------------
(* get_metadata *)

NoExc == [type |-> "none", at |-> 0, msg |-> ""]
FailedToDHCP == [type |-> "RuntimeError", at |-> 0, msg |-> "Failed to DHCP"]
Exc(t, i) == [type |-> t, at |-> i, msg |-> ""]

NoResult == [kind |-> "none", doc |-> None, exc |-> NoExc]
Returned(d) == [kind |-> "doc", doc |-> d, exc |-> NoExc]
Raised(e) == [kind |-> "exc", doc |-> None, exc |-> e]

EmptyTrace == [enumerated |-> FALSE, hit |-> FALSE, attempted |-> <<>>,
               opened |-> <<>>, routed |-> <<>>, fetched |-> <<>>,
               read |-> <<>>, parsed |-> <<>>, rlog |-> <<>>, errs |-> <<>>]

Get(f, k, d) == IF k \in DOMAIN f THEN f[k] ELSE d
Put(f, k, v) == [x \in DOMAIN f \cup {k} |-> IF x = k THEN v ELSE f[x]]
Empty == [x \in {} |-> 0]

EmptyHist == [ncalls |-> 0, runs |-> Empty, fails |-> Empty, evicts |-> Empty,
              ret |-> Empty, order |-> <<>>]

NoRt == [done |-> FALSE, iface |-> eth0, routes |-> NoIpv4Table,
         which_ip |-> FALSE, which_route |-> FALSE, subp_fails |-> FALSE,
         cmds |-> <<>>, raised |-> FALSE]

NoDmi == [manufacturer |-> None, subid |-> None, cmdline |-> <<>>, asked |-> {},
          is_vultr |-> FALSE, is_baremetal |-> FALSE]

NoNw == [op |-> "none", arg |-> <<>>, exc |-> None, msg |-> <<>>, out |-> <<>>,
         enum |-> 0, first |-> Empty]

\* (variant: every name that starts with lo is passed over)
skipped_prefix(name) ==
  \/ Contains(<<"d", "u", "m", "m", "y">>, name)
  \/ (Len(name) >= 2 /\ SubSeq(name, 1, 2) = lo)

\* lines 25-28: the interfaces the loop passes over
skipped(name) == Contains(<<"d", "u", "m", "m", "y">>, name) \/ name = lo

\* EphemeralDHCPv4.__enter__ with a lease, and __exit__
ephemeral_enter(o, name) == o \cup {name}
\* (variant: the session is left up)
ephemeral_exit_none(o, name) == o
ephemeral_exit(o, name) == o \ {name}

\* get_metadata and set_route have not been called
Idle ==
  /\ cache = <<>>
  /\ pc = "idle"
  /\ key = NoKey
  /\ ifaces = <<>>
  /\ idx = 0
  /\ exception = NoExc
  /\ open = {}
  /\ v1 = None
  /\ result = NoResult
  /\ trace = EmptyTrace
  /\ hist = EmptyHist
  /\ rt = NoRt

Init ==
  /\ Idle
  /\ rm = <<>>
  /\ dmi = NoDmi
  /\ sysmap = Empty
  /\ macs_to_nic = <<>>
  /\ nw = NoNw

\* a call whose arguments are in the cache: the wrapper answers, the body does not run
CallHit(p) ==
  /\ pc = "idle"
  /\ lru_has(cache, p)
  /\ key' = p
  /\ cache' = lru_touch(cache, p)
  /\ result' = Returned(lru_get(cache, p))
  /\ pc' = "returned"
  /\ trace' = [EmptyTrace EXCEPT !.hit = TRUE]
  /\ hist' = [hist EXCEPT !.ncalls = @ + 1]
  /\ UNCHANGED <<ifaces, idx, exception, open, v1, rt, aux>>

\* lines 20-23: the body starts, net.get_interfaces() yields l
CallMiss(p, l) ==
  /\ pc = "idle"
  /\ ~lru_has(cache, p)
  /\ key' = p
  /\ exception' = FailedToDHCP
  /\ ifaces' = l
  /\ idx' = 1
  /\ pc' = "loop"
  /\ result' = NoResult
  /\ trace' = [EmptyTrace EXCEPT !.enumerated = TRUE]
  /\ hist' = [hist EXCEPT !.ncalls = @ + 1]
  /\ UNCHANGED <<cache, open, v1, rt, aux>>

\* lines 25-28: continue
Skip ==
  /\ pc = "loop"
  /\ idx <= Len(ifaces)
  /\ skipped(ifaces[idx])
  /\ idx' = idx + 1
  /\ UNCHANGED <<cache, pc, key, ifaces, exception, open, v1, result, trace, hist, rt, aux>>

\* the first DHCP attempt of a call counts one run of the sequence for its key
Attempt(h, t, k) ==
  IF t.attempted = <<>> THEN [h EXCEPT !.runs = Put(@, k, Get(@, k, 0) + 1)] ELSE h

\* (variant: the fetch follows the lease at once, set_route is not called)
EnterLease_no_route ==
  /\ pc = "loop"
  /\ idx <= Len(ifaces)
  /\ ~skipped(ifaces[idx])
  /\ open' = ephemeral_enter(open, ifaces[idx])
  /\ pc' = "fetch"
  /\ trace' = [trace EXCEPT !.attempted = Append(@, idx), !.opened = Append(@, idx)]
  /\ hist' = Attempt(hist, trace, key)
  /\ UNCHANGED <<cache, key, ifaces, idx, exception, v1, result, rt, aux>>

\* lines 30-32: the session comes up with a lease
EnterLease ==
  /\ pc = "loop"
  /\ idx <= Len(ifaces)
  /\ ~skipped(ifaces[idx])
  /\ open' = ephemeral_enter(open, ifaces[idx])
  /\ pc' = "route"
  /\ trace' = [trace EXCEPT !.attempted = Append(@, idx), !.opened = Append(@, idx)]
  /\ hist' = Attempt(hist, trace, key)
  /\ UNCHANGED <<cache, key, ifaces, idx, exception, v1, result, rt, aux>>

\* (variant: the error is not caught and leaves get_metadata)
EnterFail_fatal(e) ==
  /\ pc = "loop"
  /\ idx <= Len(ifaces)
  /\ ~skipped(ifaces[idx])
  /\ result' = Raised(Exc(e, idx))
  /\ pc' = "raised"
  /\ trace' = [trace EXCEPT !.attempted = Append(@, idx),
                            !.errs = Append(@, Exc(e, idx))]
  /\ hist' = Attempt(hist, trace, key)
  /\ UNCHANGED <<cache, key, ifaces, idx, exception, open, v1, rt, aux>>

\* lines 30-32, 40-42: no lease, or a command of the session setup failed
EnterFail(e) ==
  /\ pc = "loop"
  /\ idx <= Len(ifaces)
  /\ ~skipped(ifaces[idx])
  /\ exception' = Exc(e, idx)
  /\ idx' = idx + 1
  /\ trace' = [trace EXCEPT !.attempted = Append(@, idx),
                            !.errs = Append(@, Exc(e, idx))]
  /\ hist' = Attempt(hist, trace, key)
  /\ UNCHANGED <<cache, pc, key, ifaces, open, v1, result, rt, aux>>

\* line 34: set_route returns
RouteReturn(routes, which_ip, which_route, subp_fails) ==
  LET r == set_route(ifaces[idx], routes, which_ip, which_route, subp_fails) IN
  /\ pc = "route"
  /\ ~r.raised
  /\ pc' = "fetch"
  /\ trace' = [trace EXCEPT !.routed = Append(@, idx),
                            !.rlog = Append(@, [at |-> idx,
                                                cmdfailed |-> r.cmds # <<>> /\ subp_fails,
                                                failed |-> FALSE])]
  /\ UNCHANGED <<cache, key, ifaces, idx, exception, open, v1, result, hist, rt, aux>>

\* lines 34, 40-42: subp.subp raises inside set_route; the with block is left,
\* the except clause records the error and the loop goes on
RouteRaise(routes, which_ip, which_route, subp_fails) ==
  LET r == set_route(ifaces[idx], routes, which_ip, which_route, subp_fails) IN
  /\ pc = "route"
  /\ r.raised
  /\ open' = ephemeral_exit(open, ifaces[idx])
  /\ exception' = Exc("ProcessExecutionError", idx)
  /\ idx' = idx + 1
  /\ pc' = "loop"
  /\ trace' = [trace EXCEPT !.routed = Append(@, idx),
                            !.rlog = Append(@, [at |-> idx,
                                                cmdfailed |-> r.cmds # <<>> /\ subp_fails,
                                                failed |-> TRUE]),
                            !.errs = Append(@, Exc("ProcessExecutionError", idx))]
  /\ UNCHANGED <<cache, key, ifaces, v1, result, hist, rt, aux>>

\* line 37: read_metadata returns the text
FetchOk(resp) ==
  LET r == read_metadata(key, resp) IN
  /\ pc = "fetch"
  /\ r.exc = None
  /\ v1' = r.text
  /\ pc' = "parse"
  /\ trace' = [trace EXCEPT !.fetched = Append(@, idx), !.read = Append(@, <<idx, r.text>>)]
  /\ UNCHANGED <<cache, key, ifaces, idx, exception, open, result, hist, rt, aux>>

\* line 37: read_metadata raises; the except clause of line 40 does not name
\* the error, so it leaves get_metadata through the with block
FetchRaise(resp) ==
  LET r == read_metadata(key, resp) IN
  /\ pc = "fetch"
  /\ r.exc # None
  /\ open' = ephemeral_exit(open, ifaces[idx])
  /\ result' = Raised(Exc(r.exc, idx))
  /\ pc' = "raised"
  /\ trace' = [trace EXCEPT !.fetched = Append(@, idx)]
  /\ UNCHANGED <<cache, key, ifaces, idx, exception, v1, hist, rt, aux>>

\* (variant: no return inside the loop; the loop goes on to the next interface)
ParseOk_goes_on ==
  /\ pc = "parse"
  /\ json_loads(v1) # "JSONDecodeError"
  /\ open' = ephemeral_exit(open, ifaces[idx])
  /\ result' = Returned(json_loads(v1))
  /\ IF idx < Len(ifaces)
     THEN pc' = "loop" /\ idx' = idx + 1 /\ cache' = cache
     ELSE pc' = "returned" /\ idx' = idx /\ cache' = lru_store(cache, key, json_loads(v1))
  /\ trace' = [trace EXCEPT !.parsed = Append(@, idx)]
  /\ UNCHANGED <<key, ifaces, exception, v1, hist, rt, aux>>

\* line 39: return json.loads(v1); the wrapper stores the result
ParseOk ==
  /\ pc = "parse"
  /\ json_loads(v1) # "JSONDecodeError"
  /\ open' = ephemeral_exit(open, ifaces[idx])
  /\ result' = Returned(json_loads(v1))
  /\ cache' = lru_store(cache, key, json_loads(v1))
  /\ pc' = "returned"
  /\ trace' = [trace EXCEPT !.parsed = Append(@, idx)]
  /\ hist' = IF lru_evicted(cache, key) = NoKey THEN hist
             ELSE [hist EXCEPT !.evicts = Put(@, lru_evicted(cache, key),
                                               Get(@, lru_evicted(cache, key), 0) + 1)]
  /\ UNCHANGED <<key, ifaces, idx, exception, v1, rt, aux>>

\* line 39: json.loads raises, which line 40 does not name either
ParseRaise ==
  /\ pc = "parse"
  /\ json_loads(v1) = "JSONDecodeError"
  /\ open' = ephemeral_exit(open, ifaces[idx])
  /\ result' = Raised(Exc("JSONDecodeError", idx))
  /\ pc' = "raised"
  /\ UNCHANGED <<cache, key, ifaces, idx, exception, v1, trace, hist, rt, aux>>

\* (variant: the generic error is raised whatever was recorded)
Exhausted_generic ==
  /\ pc = "loop"
  /\ idx > Len(ifaces)
  /\ result' = Raised(FailedToDHCP)
  /\ pc' = "raised"
  /\ UNCHANGED <<cache, key, ifaces, idx, exception, open, v1, trace, hist, rt, aux>>

\* line 43: the loop ran out
Exhausted ==
  /\ pc = "loop"
  /\ idx > Len(ifaces)
  /\ result' = Raised(exception)
  /\ pc' = "raised"
  /\ UNCHANGED <<cache, key, ifaces, idx, exception, open, v1, trace, hist, rt, aux>>

\* the caller has the outcome; the history notes it
Finish ==
  /\ pc \in {"returned", "raised"}
  /\ hist' = IF pc = "returned"
             THEN [hist EXCEPT !.ret = Put(@, key, result.doc),
                               !.order = Append(SelectSeq(@, LAMBDA q : q # key), key)]
             ELSE [hist EXCEPT !.fails = Put(@, key, Get(@, key, 0) + 1)]
  /\ pc' = "idle"
  /\ key' = NoKey
  /\ ifaces' = <<>>
  /\ idx' = 0
  /\ exception' = NoExc
  /\ v1' = None
  /\ result' = NoResult
  /\ trace' = EmptyTrace
  /\ UNCHANGED <<cache, open, rt, aux>>

Next ==
  \/ \E p \in Params : hist.ncalls < MaxCalls /\ CallHit(p)
  \/ \E p \in Params, l \in IfaceLists : hist.ncalls < MaxCalls /\ CallMiss(p, l)
  \/ Skip
  \/ EnterLease
  \/ \E e \in {"NoDHCPLeaseError", "ProcessExecutionError"} : EnterFail(e)
  \/ \E r \in ProbeTables, wi, wr, f \in BOOLEAN : RouteReturn(r, wi, wr, f)
  \/ \E r \in ProbeTables, wi, wr, f \in BOOLEAN : RouteRaise(r, wi, wr, f)
  \/ \E resp \in Responses : FetchOk(resp)
  \/ \E resp \in Responses : FetchRaise(resp)
  \/ ParseOk
  \/ ParseRaise
  \/ Exhausted
  \/ Finish

Spec == Init /\ [][Next]_vars

-----------------------------------------------------------------------------
(* The same program called with more distinct argument tuples than the      *)
(* cache holds: the tuples are first used in the order Key(1), Key(2), ...  *)
(* and, once the cache is about to be full, Key(1) is called again. The     *)
(* interfaces are lo and eth0, every step succeeds, and only Key(1) is      *)
(* served varying documents.                                                *)

SweepSched(p) ==
  LET used == Len(hist.order) IN
  \/ /\ used <= maxsize
     /\ p = Key(used + 1)
  \/ /\ used >= maxsize - 1
     /\ hist.ncalls - used < MaxRecalls
     /\ p = Key(1)

SweepResponses ==
  {r \in Responses :
     /\ r.kind = "response"
     /\ response_ok(r)
     /\ json_loads(r.contents) # "JSONDecodeError"
     /\ key # Key(1) => r.contents = "{\"v\":1}"}

SweepNext ==
  \/ \E p \in SweepParams : SweepSched(p) /\ CallHit(p)
  \/ \E p \in SweepParams : SweepSched(p) /\ CallMiss(p, <<lo, eth0>>)
  \/ Skip
  \/ EnterLease
  \/ RouteReturn(NoIpv4Table, FALSE, FALSE, FALSE)
  \/ \E resp \in SweepResponses : FetchOk(resp)
  \/ ParseOk
  \/ Finish

SpecSweep == Init /\ [][SweepNext]_vars

-----------------------------------------------------------------------------
(* set_route on its own, on every route table and tool availability *)

RouteCall(iface, routes, which_ip, which_route, subp_fails) ==
  LET r == set_route(iface, routes, which_ip, which_route, subp_fails) IN
  /\ rt' = [done |-> TRUE, iface |-> iface, routes |-> routes,
            which_ip |-> which_ip, which_route |-> which_route,
            subp_fails |-> subp_fails, cmds |-> r.cmds, raised |-> r.raised]
  /\ UNCHANGED <<cache, pc, key, ifaces, idx, exception, open, v1, result, trace, hist, aux>>

RouteNext ==
  \E n \in {lo0, eth0}, r \in RouteTables, wi, wr, f \in BOOLEAN :
    RouteCall(n, r, wi, wr, f)

SpecRoute == Init /\ [][RouteNext]_vars

-----------------------------------------------------------------------------
(* get_interface_map, get_interface_name and the network config functions *)

core == <<cache, pc, key, ifaces, idx, exception, open, v1, result, trace, hist, rt>>

MaxMeta == 3
MaxAdd == 2

\* MAC addresses of the metadata, and the name each has on the system when
\* its interface is there
Macs == {"AA", "BB", "CC"}
NicOf == [mac \in Macs |-> CASE mac = "AA" -> "eth0"
                             [] mac = "BB" -> "eth1"
                             [] OTHER -> "eth2"]

\* what net.get_interfaces_by_mac() can return
SysMaps == {[mac \in D |-> NicOf[mac]] : D \in SUBSET Macs}

\* (variant: no lru_cache, the system is asked on every call)
get_interface_map_uncached(c, sys) == [value |-> sys, cache |-> c, calls |-> 1]

\* lines 144-146: the first call asks net.get_interfaces_by_mac() and the
\* wrapper keeps the answer; later calls get the kept answer. The function
\* has no arguments, so the cache has one entry and never evicts it.
get_interface_map(c, sys) ==
  IF c # <<>>
  THEN [value |-> c[1], cache |-> c, calls |-> 0]
  ELSE [value |-> sys, cache |-> <<sys>>, calls |-> 1]

\* lines 150-156, on the map get_interface_map returned
get_interface_name(mac, map) == IF mac \notin DOMAIN map THEN None ELSE map[mac]

\* "Interface: %s could not be found on the system" % mac
NotFound(mac) == <<"Interface: ", mac, " could not be found on the system">>

Raise(e, m) == [exc |-> e, msg |-> m, netcfg |-> Empty]
Return(n) == [exc |-> None, msg |-> <<>>, netcfg |-> n]

\* lines 212-220 and 228-236: the subnet of one additional address
additional_subnet(type, additional) ==
  LET add == [type |-> type, control |-> "auto",
              address |-> additional.address, netmask |-> additional.netmask]
  IN  IF "routes" \in DOMAIN additional
      THEN Put(add, "routes", additional.routes)
      ELSE add

\* lines 198-206 and 266-274: "Options that may or may not be used"
interface_options(netcfg, interface) ==
  LET a == IF "mtu" \in DOMAIN interface
           THEN Put(netcfg, "mtu", interface["mtu"]) ELSE netcfg
      b == IF "accept-ra" \in DOMAIN interface
           THEN Put(a, "accept-ra", interface["accept-ra"]) ELSE a
  IN  IF "routes" \in DOMAIN interface
      THEN Put(b, "subnets",
               [b["subnets"] EXCEPT ![1] = Put(@, "routes", interface["routes"])])
      ELSE b

\* (variant: the template has no "accept-ra" entry)
public_template_no_ra(interface_name, interface) ==
  [name |-> interface_name, type |-> "physical", mac_address |-> interface.mac,
   subnets |-> <<[type |-> "dhcp", control |-> "auto"],
                 [type |-> "ipv6_slaac", control |-> "auto"]>>]

\* lines 187-196
public_template(interface_name, interface) ==
  Put([name |-> interface_name, type |-> "physical", mac_address |-> interface.mac,
       subnets |-> <<[type |-> "dhcp", control |-> "auto"],
                     [type |-> "ipv6_slaac", control |-> "auto"]>>],
      "accept-ra", 1)

\* lines 180-241. Lines 209 and 225 subscript interface["ipv4"] and
\* interface["ipv6"] before the `in` tests of lines 210 and 226 are made, so
\* a missing key is a KeyError.
generate_public_network_interface(interface, map) ==
  LET interface_name == get_interface_name(interface.mac, map) IN
  IF interface_name = None
  THEN Raise("RuntimeError", NotFound(interface.mac))
  ELSE
    LET netcfg == interface_options(public_template(interface_name, interface), interface)
    IN  IF "ipv4" \notin DOMAIN interface
        THEN Raise("KeyError", <<"ipv4">>)
        ELSE
          LET additional_count == Len(interface.ipv4.additional)
              with4 ==
                IF "ipv4" \in DOMAIN interface /\ additional_count > 0
                THEN Put(netcfg, "subnets", netcfg["subnets"] \o
                       [i \in 1..additional_count |->
                          additional_subnet("static", interface.ipv4.additional[i])])
                ELSE netcfg
          IN  IF "ipv6" \notin DOMAIN interface
              THEN Raise("KeyError", <<"ipv6">>)
              ELSE
                LET additional_count6 == Len(interface.ipv6.additional) IN
                IF "ipv6" \in DOMAIN interface /\ additional_count6 > 0
                THEN Return(Put(with4, "subnets", with4["subnets"] \o
                       [i \in 1..additional_count6 |->
                          additional_subnet("static6", interface.ipv6.additional[i])]))
                ELSE Return(with4)

\* (variant: the additional addresses become subnets of the private interface too)
private_subnets_all(interface) ==
  <<[type |-> "static", control |-> "auto",
     address |-> interface.ipv4.address, netmask |-> interface.ipv4.netmask]>> \o
  [i \in 1..Len(interface.ipv4.additional) |->
     additional_subnet("static", interface.ipv4.additional[i])]

\* lines 256-263
private_subnets(interface) ==
  <<[type |-> "static", control |-> "auto",
     address |-> interface.ipv4.address, netmask |-> interface.ipv4.netmask]>>

\* lines 245-276; interface["ipv4"] of line 260 is a KeyError when the key is missing
generate_private_network_interface(interface, map) ==
  LET interface_name == get_interface_name(interface.mac, map) IN
  IF interface_name = None
  THEN Raise("RuntimeError", NotFound(interface.mac))
  ELSE IF "ipv4" \notin DOMAIN interface
  THEN Raise("KeyError", <<"ipv4">>)
  ELSE Return(interface_options(
                [name |-> interface_name, type |-> "physical",
                 mac_address |-> interface.mac, subnets |-> private_subnets(interface)],
                interface))

nameserver == [type |-> "nameserver", address |-> <<"108.61.10.10">>]
NoDoc == [version |-> 0, config |-> <<>>]

\* (variant: the loop of the private interfaces starts at element 0)
generate_network_config_from_0(interfaces, map) ==
  LET n == Len(interfaces)
      stanza(i) == IF i = 0
                   THEN generate_public_network_interface(interfaces[1], map)
                   ELSE generate_private_network_interface(interfaces[i], map)
      bad == {i \in 0..n : n > 0 /\ stanza(i).exc # None}
  IN  IF bad = {}
      THEN [exc |-> None, msg |-> <<>>, looked |-> IF n = 0 THEN 0 ELSE n + 1,
            doc |-> [version |-> 1,
                     config |-> <<nameserver>> \o
                       [i \in 1..(IF n = 0 THEN 0 ELSE n + 1) |-> stanza(i - 1).netcfg]]]
      ELSE LET f == CHOOSE i \in bad : \A j \in bad : i <= j
           IN  [exc |-> stanza(f).exc, msg |-> stanza(f).msg, looked |-> f + 1,
                doc |-> NoDoc]

\* (variant: a stanza that cannot be made is left out)
generate_network_config_partial(interfaces, map) ==
  LET n == Len(interfaces)
      stanza(i) == IF i = 1
                   THEN generate_public_network_interface(interfaces[i], map)
                   ELSE generate_private_network_interface(interfaces[i], map)
      good == {i \in 1..n : stanza(i).exc = None}
      pick[k \in 0..n] ==
        IF k = 0 THEN <<>>
        ELSE IF k \in good THEN Append(pick[k - 1], stanza(k).netcfg) ELSE pick[k - 1]
  IN  [exc |-> None, msg |-> <<>>, looked |-> n,
       doc |-> [version |-> 1, config |-> <<nameserver>> \o pick[n]]]

\* lines 160-176: the stanzas are made in list order and the first error
\* leaves the function; `looked` is the number of get_interface_name calls made
generate_network_config(interfaces, map) ==
  LET n == Len(interfaces)
      stanza(i) == IF i = 1
                   THEN generate_public_network_interface(interfaces[i], map)
                   ELSE generate_private_network_interface(interfaces[i], map)
      bad == {i \in 1..n : stanza(i).exc # None}
  IN  IF bad = {}
      THEN [exc |-> None, msg |-> <<>>, looked |-> n,
            doc |-> [version |-> 1,
                     config |-> <<nameserver>> \o [i \in 1..n |-> stanza(i).netcfg]]]
      ELSE LET f == CHOOSE i \in bad : \A j \in bad : i <= j
           IN  [exc |-> stanza(f).exc, msg |-> stanza(f).msg, looked |-> f,
                doc |-> NoDoc]

\* the map `looked` calls of get_interface_name work with, the cache after
\* them and the number of times net.get_interfaces_by_mac() ran
Lookups(looked) ==
  LET g == get_interface_map(macs_to_nic, sysmap)
      h == get_interface_map(g.cache, sysmap)
  IN  IF looked = 0
      THEN [value |-> Empty, cache |-> macs_to_nic, calls |-> 0]
      ELSE [value |-> g.value, cache |-> h.cache,
            calls |-> g.calls + (looked - 1) * h.calls]

Counted(l) ==
  [enum |-> nw.enum + l.calls,
   first |-> IF nw.enum = 0 /\ l.calls > 0 THEN sysmap ELSE nw.first]

\* a metadata interface record as the data model has it, and one without "ipv4"
Meta(mac) == [mac |-> mac,
              ipv4 |-> [address |-> "10.0.0.1", netmask |-> "255.255.0.0", additional |-> <<>>],
              ipv6 |-> [additional |-> <<>>]]
MetaNoIpv4(mac) == [mac |-> mac, ipv6 |-> [additional |-> <<>>]]
MetaLists ==
  {l \in SeqsUpTo({Meta(mac) : mac \in Macs} \cup {MetaNoIpv4(mac) : mac \in Macs}, MaxMeta) :
     \A i, j \in DOMAIN l : l[i].mac = l[j].mac => i = j}

\* generate_network_config(interfaces)
Synthesize(interfaces) ==
  LET map == get_interface_map(macs_to_nic, sysmap).value
      r == generate_network_config(interfaces, map)
      l == Lookups(r.looked)
  IN  /\ macs_to_nic' = l.cache
      /\ nw' = [op |-> "synthesize", arg |-> interfaces, exc |-> r.exc, msg |-> r.msg,
                out |-> r.doc] @@ Counted(l)
      /\ UNCHANGED <<core, rm, dmi, sysmap>>

\* get_interface_name(mac)
Resolve(mac) ==
  LET l == Lookups(1) IN
  /\ macs_to_nic' = l.cache
  /\ nw' = [op |-> "resolve", arg |-> mac, exc |-> None, msg |-> <<>>,
            out |-> get_interface_name(mac, l.value)] @@ Counted(l)
  /\ UNCHANGED <<core, rm, dmi, sysmap>>

\* an interface is plugged in or taken away
SysChange(mac) ==
  /\ sysmap' = IF mac \in DOMAIN sysmap
               THEN [m \in DOMAIN sysmap \ {mac} |-> sysmap[m]]
               ELSE Put(sysmap, mac, NicOf[mac])
  /\ UNCHANGED <<core, rm, dmi, macs_to_nic, nw>>

InitNet ==
  /\ Idle
  /\ rm = <<>>
  /\ dmi = NoDmi
  /\ sysmap \in SysMaps
  /\ macs_to_nic = <<>>
  /\ nw = NoNw

NetNext ==
  \/ \E interfaces \in MetaLists : Synthesize(interfaces)
  \/ \E mac \in Macs : Resolve(mac)
  \/ \E mac \in Macs : SysChange(mac)

SpecNet == InitNet /\ [][NetNext]_vars

-----------------------------------------------------------------------------
(* The two stanza functions on their own, on every shape of record *)

R1 == <<[network |-> "0.0.0.0", netmask |-> "0.0.0.0", gateway |-> "10.0.0.254"]>>
R2 == <<[network |-> "10.1.0.0", netmask |-> "255.255.0.0", gateway |-> "10.1.0.1"]>>

Additional4 == {[address |-> "1.2.3.4", netmask |-> "255.255.255.0"],
                [address |-> "5.6.7.8", netmask |-> "255.255.255.0", routes |-> R2]}
Additional6 == {[address |-> "2001:db8::1", netmask |-> "64"],
                [address |-> "2001:db8::2", netmask |-> "64", routes |-> R2]}

\* the optional keys of a record: each is there or not
Optional(recs, k, values) == recs \cup {Put(r, k, v) : r \in recs, v \in values}

StanzaRecs ==
  LET macs == {[mac |-> mac] : mac \in Macs}
      v4 == Optional(macs, "ipv4",
              {[address |-> "10.0.0.1", netmask |-> "255.255.0.0", additional |-> a] :
                 a \in SeqsUpTo(Additional4, MaxAdd)})
      v6 == Optional(v4, "ipv6", {[additional |-> a] : a \in SeqsUpTo(Additional6, MaxAdd)})
      mtu == Optional(v6, "mtu", {1500})
      ra == Optional(mtu, "accept-ra", {0, 1})
  IN  Optional(ra, "routes", {R1})

\* the result of one stanza function
Made(op, r, l) ==
  [op |-> op, arg |-> nw.arg, exc |-> r.exc, msg |-> r.msg, out |-> r.netcfg] @@ Counted(l)

\* generate_public_network_interface(interface)
GenPublic ==
  LET l == Lookups(1) IN
  /\ nw.op = "none"
  /\ macs_to_nic' = l.cache
  /\ nw' = Made("public", generate_public_network_interface(nw.arg, l.value), l)
  /\ UNCHANGED <<core, rm, dmi, sysmap>>

\* generate_private_network_interface(interface)
GenPrivate ==
  LET l == Lookups(1) IN
  /\ nw.op = "none"
  /\ macs_to_nic' = l.cache
  /\ nw' = Made("private", generate_private_network_interface(nw.arg, l.value), l)
  /\ UNCHANGED <<core, rm, dmi, sysmap>>

InitStanza ==
  /\ Idle
  /\ rm = <<>>
  /\ dmi = NoDmi
  /\ sysmap \in SysMaps
  /\ macs_to_nic = <<>>
  /\ \E interface \in StanzaRecs : nw = [NoNw EXCEPT !.arg = interface]

StanzaNext == GenPublic \/ GenPrivate

SpecStanza == InitStanza /\ [][StanzaNext]_vars

-----------------------------------------------------------------------------
(* get_sysinfo, is_baremetal and is_vultr *)

MaxTokens == 2

\* what dmi.read_dmi_data("system-manufacturer") can give
Manufacturers == {"Vultr", "vultr", "Supermicro", None}

\* words of a kernel command line, as character sequences
vultr == <<"v", "u", "l", "t", "r">>
Words == {vultr,
          <<"v", "u", "l", "t", "r", "=", "1">>,
          <<"n", "o", "v", "u", "l", "t", "r">>,
          <<"V", "u", "l", "t", "r">>,
          <<"r", "o">>}
Gaps == {<<" ">>, <<"\t">>, <<" ", " ">>}

\* what util.get_cmdline() can give: up to MaxTokens words with white space
\* between them, and possibly before and after
Cmdlines ==
  LET joined[n \in 0..MaxTokens] ==
        IF n = 0 THEN {<<>>}
        ELSE joined[n - 1] \cup
             {IF c = <<>> THEN w ELSE c \o g \o w : c \in joined[n - 1], g \in Gaps, w \in Words}
  IN  {lead \o c \o trail : lead \in {<<>>, <<" ">>}, c \in joined[MaxTokens],
                            trail \in {<<>>, <<"\n">>}}

\* str.split() without arguments separates at runs of white space and gives
\* no empty words
IsSpace(ch) == ch \in {" ", "\t", "\n", "\r", "\f"}

RECURSIVE split_from(_, _, _)
split_from(s, i, word) ==
  IF i > Len(s)
  THEN IF word = <<>> THEN <<>> ELSE <<word>>
  ELSE IF IsSpace(s[i])
  THEN (IF word = <<>> THEN <<>> ELSE <<word>>) \o split_from(s, i + 1, <<>>)
  ELSE split_from(s, i + 1, Append(word, s[i]))

split(s) == split_from(s, 1, <<>>)

\* lines 90-94
get_sysinfo == [manufacturer |-> dmi.manufacturer, subid |-> dmi.subid]

\* lines 98-101
is_baremetal(manufacturer) == IF manufacturer # "Vultr" THEN TRUE ELSE FALSE

\* (variant: `"vultr" in util.get_cmdline()`, a test on the text)
is_vultr_substring(manufacturer, cmdline) ==
  IF manufacturer = "Vultr" THEN TRUE
  ELSE IF Contains(vultr, cmdline) THEN TRUE
  ELSE FALSE

\* lines 105-116
is_vultr(manufacturer, cmdline) ==
  IF manufacturer = "Vultr" THEN TRUE
  ELSE IF vultr \in Range(split(cmdline)) THEN TRUE
  ELSE FALSE

IsVultr ==
  /\ "is_vultr" \notin dmi.asked
  /\ dmi' = [dmi EXCEPT !.asked = @ \cup {"is_vultr"},
                        !.is_vultr = is_vultr(get_sysinfo.manufacturer, dmi.cmdline)]
  /\ UNCHANGED <<core, rm, sysmap, macs_to_nic, nw>>

IsBaremetal ==
  /\ "is_baremetal" \notin dmi.asked
  /\ dmi' = [dmi EXCEPT !.asked = @ \cup {"is_baremetal"},
                        !.is_baremetal = is_baremetal(get_sysinfo.manufacturer)]
  /\ UNCHANGED <<core, rm, sysmap, macs_to_nic, nw>>

InitId ==
  /\ Idle
  /\ rm = <<>>
  /\ \E m \in Manufacturers, c \in Cmdlines :
       dmi = [NoDmi EXCEPT !.manufacturer = m, !.cmdline = c]
  /\ sysmap = Empty
  /\ macs_to_nic = <<>>
  /\ nw = NoNw

IdNext == IsVultr \/ IsBaremetal

SpecId == InitId /\ [][IdNext]_vars

-----------------------------------------------------------------------------
(* read_metadata on its own, on every response *)

MaxFetches == 2

\* the responses of url_helper.readurl, with a body on every status and
\* bodies that are not UTF-8
FetchResponses ==
  {[kind |-> "UrlError", code |-> 0, contents |-> None]} \cup
  {[kind |-> "response", code |-> c, contents |-> t] :
     c \in {200, 204, 404, 503}, t \in Texts \cup {NotUtf8}}

ReadMetadata(p, resp) ==
  /\ Len(rm) < MaxFetches
  /\ rm' = Append(rm, [key |-> p, resp |-> resp, out |-> read_metadata(p, resp)])
  /\ UNCHANGED <<core, dmi, sysmap, macs_to_nic, nw>>

FetchNext == \E p \in Params, resp \in FetchResponses : ReadMetadata(p, resp)

SpecFetch == Init /\ [][FetchNext]_vars

-----------------------------------------------------------------------------
(* Properties *)

Last(s) == s[Len(s)]

\* the call in progress did none of the work of the body
NoWork ==
  /\ trace.hit
  /\ ~trace.enumerated
  /\ trace.attempted = <<>>
  /\ trace.opened = <<>>
  /\ trace.routed = <<>>
  /\ trace.fetched = <<>>

\* the distinct other tuples that returned a document (fetched or memoized)
\* since k last did
OthersSince(k) ==
  Cardinality({i \in DOMAIN hist.order :
                 \E j \in DOMAIN hist.order : j < i /\ hist.order[j] = k})

\* C1 as stated: once a call with a tuple has returned a document, every later
\* call with that tuple returns the same document without enumeration, DHCP
\* session, route installation or fetch.
C1_AnyLaterCall ==
  (pc # "idle" /\ key \in DOMAIN hist.ret) =>
    (pc = "returned" /\ result = Returned(hist.ret[key]) /\ NoWork)

\* C1 amended: a call that fetches a document issues exactly one fetch, and
\* once a call with a tuple has returned a document, a later call with that
\* tuple returns the same document without enumeration, DHCP session, route
\* installation or fetch, provided fewer than maxsize (128) other distinct
\* tuples have returned a document since that tuple last did.
C1_MemoizedWhileRecent ==
  /\ (pc = "returned" /\ ~trace.hit) => Len(trace.fetched) = 1
  /\ (pc # "idle" /\ key \in DOMAIN hist.ret /\ OthersSince(key) < maxsize) =>
       (pc = "returned" /\ result = Returned(hist.ret[key]) /\ NoWork)

\* a second call is answered from the cache although maxsize - 1 other tuples
\* were used in between
C1_Witness ==
  /\ pc = "returned"
  /\ key \in DOMAIN hist.ret
  /\ OthersSince(key) = maxsize - 1
  /\ result = Returned(hist.ret[key])
  /\ NoWork

\* C2 as stated: the DHCP + fetch sequence runs at most once per tuple.
C2_AtMostOncePerTuple ==
  \A k \in DOMAIN hist.runs : hist.runs[k] <= 1

\* C2 amended: for each tuple the DHCP + fetch sequence runs at most once
\* more than the number of calls with that tuple that raised plus the number
\* of times its document was dropped from the cache of maxsize (128) entries.
C2_OncePerMemoizedTuple ==
  \A k \in DOMAIN hist.runs :
    hist.runs[k] <= 1 + Get(hist.fails, k, 0) + Get(hist.evicts, k, 0)

\* a call with a tuple raised, the next call with it ran the sequence again
\* and returned a document
C2_Witness ==
  /\ pc = "returned"
  /\ ~trace.hit
  /\ hist.runs[key] = 2
  /\ Get(hist.fails, key, 0) = 1

\* the names the loop has to pass over, spelled out
LoOrDummy(n) == n \in {lo, mydummy}

RecoveredErrors == {"NoDHCPLeaseError", "ProcessExecutionError"}

\* interface j got a lease, its route step returned, its fetch returned a text
\* and the text parsed
Succeeded(j) ==
  /\ j \in Range(trace.opened)
  /\ \E i \in DOMAIN trace.rlog : trace.rlog[i].at = j /\ ~trace.rlog[i].failed
  /\ \E i \in DOMAIN trace.read : trace.read[i][1] = j
  /\ j \in Range(trace.parsed)

Touched(j) ==
  j \in Range(trace.attempted) \cup Range(trace.opened)
        \cup Range(trace.routed) \cup Range(trace.fetched)

\* C3: a document returned by the body is the one parsed from the text fetched
\* through the first interface, in enumeration order, on which lease, route
\* step, fetch and parse all succeeded, and no later interface was touched.
C3_FirstSuccessWins ==
  (pc = "returned" /\ ~trace.hit) =>
    /\ trace.parsed # <<>>
    /\ LET w == Last(trace.parsed) IN
       /\ Succeeded(w)
       /\ \E i \in DOMAIN trace.read :
            trace.read[i][1] = w /\ result = Returned(json_loads(trace.read[i][2]))
       /\ \A j \in 1..(w - 1) : ~Succeeded(j)
       /\ \A j \in (w + 1)..Len(ifaces) : ~Touched(j)

\* lo was passed over, the candidate after it gave the document, and the
\* candidate after that one was left alone
C3_Witness ==
  /\ pc = "returned"
  /\ Len(ifaces) = 3
  /\ ifaces[1] = lo
  /\ trace.parsed = <<2>>
  /\ ~LoOrDummy(ifaces[3])
  /\ ~Touched(3)

\* C4: at most one session is up at any time, it is the one of the interface
\* being worked on, and none is up between attempts or once the call has
\* returned or raised.
C4_SessionsReleased ==
  /\ Cardinality(open) <= 1
  /\ pc \in {"idle", "loop", "returned", "raised"} => open = {}
  /\ pc \in {"route", "fetch", "parse"} => open = {ifaces[idx]}

\* two sessions were opened in one call, which then raised, and none is up
C4_Witness ==
  /\ pc = "raised"
  /\ Len(trace.opened) = 2
  /\ open = {}

\* C5 as stated: when the call raises, every interface that is not passed
\* over was attempted and none of them gave both a lease and a fetched text.
C5_FailsOnlyIfAllFailed ==
  pc = "raised" =>
    \A j \in 1..Len(ifaces) :
      ~LoOrDummy(ifaces[j]) =>
        /\ j \in Range(trace.attempted)
        /\ ~(j \in Range(trace.opened) /\ \E i \in DOMAIN trace.read : trace.read[i][1] = j)

\* C6: after a lease failure or a ProcessExecutionError on an interface the
\* error is recorded, no session is up and the loop stands at a later
\* interface; the call raises such an error only when no candidate follows
\* the interface it was recorded for.
C6_LocalRecovery ==
  /\ (pc = "loop" /\ trace.attempted # <<>>) =>
       /\ open = {}
       /\ trace.errs # <<>>
       /\ exception = Last(trace.errs)
       /\ exception.type \in RecoveredErrors
       /\ exception.at = Last(trace.attempted)
       /\ idx > exception.at
  /\ (pc = "raised" /\ result.exc.type \in RecoveredErrors) =>
       \A j \in (result.exc.at + 1)..Len(ifaces) : LoOrDummy(ifaces[j])

\* the route command failed on the first candidate and the second candidate
\* has its session up
C6_Witness ==
  /\ pc = "route"
  /\ trace.attempted = <<1, 2>>
  /\ trace.errs = <<Exc("ProcessExecutionError", 1)>>
  /\ trace.rlog # <<>>

\* C7: when the loop runs out, the error raised is the one recorded for the
\* last interface attempted, or the generic "Failed to DHCP" RuntimeError when
\* none was attempted (no interface, or only lo and dummy ones).
C7_LastErrorRaised ==
  (pc = "raised" /\ idx > Len(ifaces)) =>
    /\ (\A j \in 1..Len(ifaces) : LoOrDummy(ifaces[j])) => result.exc = FailedToDHCP
    /\ IF trace.attempted = <<>>
       THEN result.exc = FailedToDHCP
       ELSE /\ trace.errs # <<>>
            /\ result.exc = Last(trace.errs)
            /\ result.exc.at = Last(trace.attempted)

\* two candidates failed with different errors and the second error is raised
C7_Witness ==
  /\ pc = "raised"
  /\ Len(trace.errs) = 2
  /\ trace.errs[1].type # trace.errs[2].type
  /\ result.exc = trace.errs[2]

C9_RouteOnlyWhenNeeded ==
  rt.done =>
    LET has4 == "ipv4" \in DOMAIN rt.routes
        present(d) == has4 /\ \E i \in DOMAIN rt.routes.ipv4 :
                                rt.routes.ipv4[i].destination = d
        needed == /\ has4
                  /\ present("100.64.0.0") \/ present("100.64.0.0/10")
                  /\ ~present("169.254.169.254")
        adds(c) == /\ \E i \in DOMAIN c : c[i] = "add"
                   /\ \E i \in DOMAIN c : c[i] = "169.254.169.254/32"
    IN  /\ rt.cmds # <<>> => needed
        /\ (needed /\ (rt.which_ip \/ rt.which_route)) =>
             (Len(rt.cmds) = 1 /\ adds(rt.cmds[1]))
        /\ \A i \in DOMAIN rt.cmds : adds(rt.cmds[i])

\* the table holds 100.64.0.0/10 alone, a tool is at hand and one command ran
C9_Witness ==
  /\ rt.done
  /\ rt.routes = Ipv4Table(<<"100.64.0.0/10">>)
  /\ rt.which_ip \/ rt.which_route
  /\ Len(rt.cmds) = 1

\* C10 as stated: set_route never raises to get_metadata, which goes on to
\* the fetch on that interface each time.
C10_RouteNeverRaises ==
  \A i \in DOMAIN trace.rlog :
    /\ ~trace.rlog[i].failed
    /\ \/ trace.rlog[i].at \in Range(trace.fetched)
       \/ (pc = "fetch" /\ idx = trace.rlog[i].at)

\* C10 amended: set_route returns normally, and get_metadata goes on to the
\* fetch on that interface, in every case but one: when the add-route command
\* it runs fails, ProcessExecutionError reaches get_metadata, which records it
\* and goes to the next interface without a fetch on this one.
C10_RouteRaisesOnlyOnCommandFailure ==
  \A i \in DOMAIN trace.rlog :
    LET e == trace.rlog[i] IN
    /\ e.failed <=> e.cmdfailed
    /\ e.failed => /\ e.at \notin Range(trace.fetched)
                   /\ Exc("ProcessExecutionError", e.at) \in Range(trace.errs)
    /\ ~e.failed => \/ e.at \in Range(trace.fetched)
                    \/ (pc = "fetch" /\ idx = e.at)

\* the add-route command failed on the first candidate, nothing was fetched
\* there, and set_route returned on the second, where the fetch is next
C10_Witness ==
  /\ pc = "fetch"
  /\ Len(trace.rlog) = 2
  /\ trace.rlog[1].failed
  /\ ~trace.rlog[2].failed
  /\ trace.fetched = <<>>

\* the route step of interface j returned normally
RouteReturned(j) ==
  \E i \in DOMAIN trace.rlog : trace.rlog[i].at = j /\ ~trace.rlog[i].failed

\* C18: in each attempt the steps come in the order lease, set_route,
\* read_metadata, json.loads: set_route runs only with the session of that
\* interface up after a lease, read_metadata only after set_route returned
\* for the same interface, and nothing is fetched on an interface whose lease
\* or route step failed.
C18_StepOrder ==
  /\ Range(trace.routed) \subseteq Range(trace.opened)
  /\ Range(trace.opened) \subseteq Range(trace.attempted)
  /\ \A j \in Range(trace.fetched) : j \in Range(trace.opened) /\ RouteReturned(j)
  /\ \A j \in Range(trace.parsed) : \E i \in DOMAIN trace.read : trace.read[i][1] = j
  /\ \A i \in DOMAIN trace.read : trace.read[i][1] \in Range(trace.fetched)
  /\ \A i \in DOMAIN trace.errs : trace.errs[i].at \notin Range(trace.fetched)
  /\ pc = "route" =>
       /\ open = {ifaces[idx]}
       /\ Last(trace.opened) = idx
       /\ idx \notin Range(trace.routed)
  /\ pc = "fetch" =>
       /\ open = {ifaces[idx]}
       /\ RouteReturned(idx)
       /\ idx \notin Range(trace.fetched)
  /\ pc = "parse" =>
       /\ open = {ifaces[idx]}
       /\ Last(trace.fetched) = idx
       /\ idx \notin Range(trace.parsed)

\* the lease failed on one candidate, the route command on the next, and the
\* call ended with nothing fetched
C18_Witness ==
  /\ pc = "raised"
  /\ Len(trace.attempted) = 2
  /\ Len(trace.opened) = 1
  /\ Len(trace.routed) = 1
  /\ trace.fetched = <<>>

\* C19: when a route is needed set_route runs at most one command: the ip
\* form on the interface whenever ip is found, whether or not route is; the
\* route form with next hop 100.64.0.1, the same for every interface, only
\* when ip is not found and route is; none when neither is found.
C19_ToolChoice ==
  (rt.done /\ "ipv4" \in DOMAIN rt.routes) =>
    LET dests == {rt.routes.ipv4[i].destination : i \in DOMAIN rt.routes.ipv4}
        needed == /\ dests \cap {"100.64.0.0", "100.64.0.0/10"} # {}
                  /\ "169.254.169.254" \notin dests
    IN  needed =>
          /\ Len(rt.cmds) <= 1
          /\ rt.which_ip =>
               rt.cmds = << <<"ip", "route", "add", "169.254.169.254/32", "dev", rt.iface>> >>
          /\ (~rt.which_ip /\ rt.which_route) =>
               rt.cmds = << <<"route", "add", "-net", "169.254.169.254/32", "100.64.0.1">> >>
          /\ (~rt.which_ip /\ ~rt.which_route) => rt.cmds = <<>>

\* a route is needed, both tools are found and the ip form ran
C19_Witness ==
  /\ rt.done
  /\ rt.routes = Ipv4Table(<<"100.64.0.0", "0.0.0.0">>)
  /\ rt.which_ip
  /\ rt.which_route
  /\ rt.cmds = <<ip_route_add(rt.iface)>>

Conforms(interface) == "ipv4" \in DOMAIN interface /\ "ipv6" \in DOMAIN interface

\* the map the resolver works with: the first snapshot
Snapshot == nw.first

\* C11: for a list of n metadata records (each with ipv4 and ipv6, as the data
\* model has them) whose MACs all resolve, generate_network_config returns a
\* version 1 document whose config is the nameserver stanza alone when n = 0,
\* and otherwise the nameserver stanza, the public stanza of element 0 and the
\* private stanzas of elements 1..n-1 in input order: n + 1 stanzas.
C11_DocumentShape ==
  (/\ nw.op = "synthesize"
   /\ \A i \in DOMAIN nw.arg : nw.arg[i].mac \in DOMAIN Snapshot /\ Conforms(nw.arg[i]))
  =>
    LET n == Len(nw.arg)
        config == nw.out.config
    IN  /\ nw.exc = None
        /\ nw.out.version = 1
        /\ Len(config) = IF n = 0 THEN 1 ELSE n + 1
        /\ config[1] = [type |-> "nameserver", address |-> <<"108.61.10.10">>]
        /\ n >= 1 =>
             /\ config[2]["mac_address"] = nw.arg[1].mac
             /\ config[2]["name"] = Snapshot[nw.arg[1].mac]
             /\ config[2]["subnets"][1].type = "dhcp"
        /\ \A i \in 2..n :
             /\ config[i + 1]["mac_address"] = nw.arg[i].mac
             /\ config[i + 1]["name"] = Snapshot[nw.arg[i].mac]
             /\ config[i + 1]["subnets"][1].type = "static"

\* three records, all on the system: a public stanza and two private ones
C11_Witness ==
  /\ nw.op = "synthesize"
  /\ Len(nw.arg) = 3
  /\ nw.exc = None
  /\ Len(nw.out.config) = 4
  /\ nw.out.config[3]["mac_address"] # nw.out.config[4]["mac_address"]

Unresolved == {i \in DOMAIN nw.arg : nw.arg[i].mac \notin DOMAIN Snapshot}

\* the error names this MAC
Names_(mac) == nw.msg = <<"Interface: ", mac, " could not be found on the system">>

\* C12 (as stated): for every element of the list whose MAC does not resolve,
\* generate_network_config fails with the error that names the MAC of that
\* element, and returns no document.
C12_EveryMissNamed ==
  nw.op = "synthesize" =>
    \A i \in Unresolved :
      /\ nw.exc = "RuntimeError"
      /\ Names_(nw.arg[i].mac)
      /\ nw.out = NoDoc

\* C12 (amended): when some MAC of the list does not resolve,
\* generate_network_config fails and returns no document, never one that
\* leaves an element out; the stanzas are made in list order and the first
\* failure ends the call, so when every element before the first unresolved
\* one has its ipv4 and ipv6 sections the error is the RuntimeError naming the
\* MAC of the first unresolved element.
C12_FirstMissNamed ==
  (nw.op = "synthesize" /\ Unresolved # {}) =>
    LET f == CHOOSE i \in Unresolved : \A j \in Unresolved : i <= j IN
    /\ nw.exc # None
    /\ nw.out = NoDoc
    /\ (\A j \in 1..(f - 1) : Conforms(nw.arg[j])) =>
         /\ nw.exc = "RuntimeError"
         /\ Names_(nw.arg[f].mac)

\* the public interface is on the system, the first private one is not, the
\* second private one is not either: the error names the first of the two
C12_Witness ==
  /\ nw.op = "synthesize"
  /\ Unresolved = {2, 3}
  /\ Conforms(nw.arg[1])
  /\ nw.exc = "RuntimeError"
  /\ Names_(nw.arg[2].mac)
  /\ ~Names_(nw.arg[3].mac)
  /\ nw.out = NoDoc

\* C17: over any sequence of get_interface_name and generate_network_config
\* calls net.get_interfaces_by_mac() runs at most once; the map it returned
\* that once is what the cache holds from then on, and get_interface_name(mac)
\* answers from it (None for a MAC that is not in it) whatever the interfaces
\* of the system are by now.
C17_MapBuiltOnce ==
  /\ nw.enum <= 1
  /\ nw.enum = 0 <=> macs_to_nic = <<>>
  /\ nw.enum = 1 => macs_to_nic = <<nw.first>>
  /\ nw.op = "resolve" =>
       /\ nw.enum = 1
       /\ nw.out = IF nw.arg \in DOMAIN nw.first THEN nw.first[nw.arg] ELSE None
  /\ (nw.op = "synthesize" /\ nw.arg # <<>>) => nw.enum = 1

\* the interface of the MAC was there at the first call and is gone now, one
\* that was not there has come: the answers are those of the first snapshot
C17_Witness ==
  /\ nw.op = "resolve"
  /\ nw.enum = 1
  /\ nw.arg \in DOMAIN nw.first
  /\ nw.arg \notin DOMAIN sysmap
  /\ nw.out = NicOf[nw.arg]
  /\ \E mac \in DOMAIN sysmap : mac \notin DOMAIN nw.first

\* the subnet line 212-220 / 228-236 makes of one additional address
IsSubnetOf(subnet, type, additional) ==
  /\ subnet.type = type
  /\ subnet.address = additional.address
  /\ subnet.netmask = additional.netmask
  /\ IF "routes" \in DOMAIN additional
     THEN "routes" \in DOMAIN subnet /\ subnet.routes = additional.routes
     ELSE "routes" \notin DOMAIN subnet

\* C13: generate_public_network_interface, for a record with its ipv4 and
\* ipv6 sections and a MAC on the system, returns a stanza whose subnets are
\* dhcp, ipv6_slaac, one static per ipv4.additional entry in order, then one
\* static6 per ipv6.additional entry in order, each with the address, the
\* netmask and (if it has them) the routes of its entry; the routes of the
\* interface are on the dhcp subnet and on no other; "accept-ra" is always
\* there, with the value of the metadata when it gives one and 1 otherwise.
C13_PublicStanza ==
  nw.op = "public" =>
    /\ (Conforms(nw.arg) /\ nw.arg.mac \in DOMAIN Snapshot) => nw.exc = None
    /\ nw.exc = None =>
         LET subnets == nw.out["subnets"]
             a4 == nw.arg.ipv4.additional
             a6 == nw.arg.ipv6.additional
         IN  /\ Len(subnets) = 2 + Len(a4) + Len(a6)
             /\ subnets[1].type = "dhcp"
             /\ subnets[2] = [type |-> "ipv6_slaac", control |-> "auto"]
             /\ \A i \in DOMAIN a4 : IsSubnetOf(subnets[2 + i], "static", a4[i])
             /\ \A i \in DOMAIN a6 : IsSubnetOf(subnets[2 + Len(a4) + i], "static6", a6[i])
             /\ IF "routes" \in DOMAIN nw.arg
                THEN subnets[1] = [type |-> "dhcp", control |-> "auto", routes |-> nw.arg["routes"]]
                ELSE subnets[1] = [type |-> "dhcp", control |-> "auto"]
             /\ "accept-ra" \in DOMAIN nw.out
             /\ nw.out["accept-ra"] =
                  IF "accept-ra" \in DOMAIN nw.arg THEN nw.arg["accept-ra"] ELSE 1

\* two additional IPv4 addresses, the second with routes of its own, one
\* additional IPv6 address, routes of the interface, accept-ra 0 in the metadata
C13_Witness ==
  /\ nw.op = "public"
  /\ nw.exc = None
  /\ Len(nw.arg.ipv4.additional) = 2
  /\ "routes" \notin DOMAIN nw.arg.ipv4.additional[1]
  /\ "routes" \in DOMAIN nw.arg.ipv4.additional[2]
  /\ Len(nw.arg.ipv6.additional) = 1
  /\ "routes" \in DOMAIN nw.arg
  /\ "accept-ra" \in DOMAIN nw.arg
  /\ nw.arg["accept-ra"] = 0
  /\ nw.out["subnets"][1].routes = R1
  /\ nw.out["subnets"][4].routes = R2
  /\ nw.out["subnets"][5].type = "static6"
  /\ nw.out["accept-ra"] = 0

\* C14: generate_private_network_interface, for a record with an ipv4 section
\* and a MAC on the system, returns a stanza with one subnet, static, of
\* ipv4.address and ipv4.netmask, whatever ipv4.additional and
\* ipv6.additional hold; mtu and accept-ra are in the stanza exactly when they
\* are in the metadata, with its values, and the routes of the interface,
\* when it has them, are on that one subnet.
C14_PrivateStanza ==
  nw.op = "private" =>
    /\ ("ipv4" \in DOMAIN nw.arg /\ nw.arg.mac \in DOMAIN Snapshot) => nw.exc = None
    /\ nw.exc = None =>
         LET subnets == nw.out["subnets"]
             static == [type |-> "static", control |-> "auto",
                        address |-> nw.arg.ipv4.address, netmask |-> nw.arg.ipv4.netmask]
         IN  /\ Len(subnets) = 1
             /\ IF "routes" \in DOMAIN nw.arg
                THEN subnets[1] = Put(static, "routes", nw.arg["routes"])
                ELSE subnets[1] = static
             /\ \A k \in {"mtu", "accept-ra"} :
                  IF k \in DOMAIN nw.arg
                  THEN k \in DOMAIN nw.out /\ nw.out[k] = nw.arg[k]
                  ELSE k \notin DOMAIN nw.out

\* a private interface with additional IPv4 and IPv6 addresses, an mtu and
\* routes, and no accept-ra: one static subnet, and no accept-ra in the stanza
C14_Witness ==
  /\ nw.op = "private"
  /\ nw.exc = None
  /\ nw.arg.ipv4.additional # <<>>
  /\ "ipv6" \in DOMAIN nw.arg
  /\ nw.arg.ipv6.additional # <<>>
  /\ DOMAIN nw.arg = {"mac", "ipv4", "ipv6", "mtu", "routes"}
  /\ Len(nw.out["subnets"]) = 1
  /\ nw.out["subnets"][1].routes = R1
  /\ nw.out["mtu"] = 1500
  /\ "accept-ra" \notin DOMAIN nw.out

\* C20: generate_public_network_interface, for a record without the "ipv4"
\* key (or without the "ipv6" key) whose MAC is on the system, returns a
\* stanza, one that has no static (respectively static6) subnet.
C20_SectionsOptional ==
  (/\ nw.op = "public"
   /\ nw.arg.mac \in DOMAIN Snapshot
   /\ ~Conforms(nw.arg))
  =>
    /\ nw.exc = None
    /\ \A i \in DOMAIN nw.out["subnets"] :
         /\ "ipv4" \notin DOMAIN nw.arg => nw.out["subnets"][i].type # "static"
         /\ "ipv6" \notin DOMAIN nw.arg => nw.out["subnets"][i].type # "static6"

\* `vultr` stands in the command line with white space, or an end of the
\* line, on each side
HasToken(c) ==
  \E i \in 1..Len(c) :
    /\ i + 4 <= Len(c)
    /\ SubSeq(c, i, i + 4) = <<"v", "u", "l", "t", "r">>
    /\ (i = 1 \/ IsSpace(c[i - 1]))
    /\ (i + 4 = Len(c) \/ IsSpace(c[i + 5]))

\* C15: is_vultr() is true exactly when the manufacturer is "Vultr" or
\* `vultr` is a white space delimited word of the kernel command line;
\* is_baremetal() is true exactly when the manufacturer is not "Vultr"; so
\* when both are true the command line has the word.
C15_Identity ==
  /\ "is_vultr" \in dmi.asked =>
       (dmi.is_vultr <=> (dmi.manufacturer = "Vultr" \/ HasToken(dmi.cmdline)))
  /\ "is_baremetal" \in dmi.asked =>
       (dmi.is_baremetal <=> dmi.manufacturer # "Vultr")
  /\ (dmi.asked = {"is_vultr", "is_baremetal"} /\ dmi.is_vultr /\ dmi.is_baremetal) =>
       HasToken(dmi.cmdline)

\* another manufacturer and a command line where vultr is only part of
\* longer words: bare metal, and not the provider
C15_Witness ==
  /\ dmi.asked = {"is_vultr", "is_baremetal"}
  /\ dmi.manufacturer = "Supermicro"
  /\ Contains(<<"v", "u", "l", "t", "r">>, dmi.cmdline)
  /\ ~dmi.is_vultr
  /\ dmi.is_baremetal

\* C16: on a response that is not ok read_metadata raises a RuntimeError
\* with the url asked for ("%s/v1.json" % url) and the status code; on a
\* response that is ok it returns the decoded body.
C16_FetchError ==
  \A i \in DOMAIN rm :
    rm[i].resp.kind = "response" =>
      IF rm[i].resp.code >= 400
      THEN /\ rm[i].out.exc = "RuntimeError"
           /\ rm[i].out.url = <<rm[i].key[1], "/v1.json">>
           /\ rm[i].out.code = rm[i].resp.code
      ELSE rm[i].resp.contents \in Texts =>
             /\ rm[i].out.exc = None
             /\ rm[i].out.text = rm[i].resp.contents

====
